---- MODULE Spec2Model ----
(***************************************************************************)
(* The STAC client of src/stac/stac.py: class STAC, its constructor and    *)
(* the operations conformance, catalog, collection, search and url.        *)
(*                                                                         *)
(* Strings are sequences of symbols.  The symbols "/" and "?" are the      *)
(* characters the code splits and searches on; a literal of the code that  *)
(* is never split (a path word such as stac, the text access_token=) is    *)
(* one symbol.                                                             *)
(***************************************************************************)
EXTENDS Integers, Sequences, FiniteSets, TLC

VARIABLES
    args,          \* the constructor's arguments (url, validate, access_token)
    url,           \* self._url
    collections,   \* self._collections: an insertion-ordered dict
    catalog,       \* self._catalog
    validate,      \* self._validate
    access_token,  \* self._access_token: the query suffix
    last,          \* the last call: operation, argument, requests issued, result
    listed,        \* history: the last identifier list a catalog call returned
    returned,      \* history: per identifier, the Collection collection() returned
    history,       \* history: requests per identifier (kept when counting is on),
                   \* and whether collection() filled the empty cache
    threads        \* the callers that run collection() side by side, statement by
                   \* statement, and the order of their writes to self._collections

vars == <<args, url, collections, catalog, validate, access_token, last, listed, returned,
          history, threads>>

client == <<url, collections, catalog, validate, access_token>>

-----------------------------------------------------------------------------
(* Bounds of the model *)

\* longest URL string given to the constructor
MaxUrlLen == 2

\* most links in one catalog document
MaxLinks == 2

\* number of distinct documents the server can answer a request with
NData == 2

-----------------------------------------------------------------------------
(* Strings *)

RECURSIVE StringsUpTo(_, _)
StringsUpTo(chars, n) ==
    IF n = 0 THEN {<<>>}
    ELSE LET shorter == StringsUpTo(chars, n - 1)
         IN  shorter \cup {Append(s, c) : s \in shorter, c \in chars}

Range(s) == {s[i] : i \in 1..Len(s)}

EndsWith(s, suffix) ==
    /\ Len(suffix) <= Len(s)
    /\ SubSeq(s, Len(s) - Len(suffix) + 1, Len(s)) = suffix

Contains(s, part) ==
    \E i \in 1..(Len(s) + 1) :
        /\ i + Len(part) - 1 <= Len(s)
        /\ SubSeq(s, i, i + Len(part) - 1) = part

\* s.index(c): the position of the first c in s (0 when there is none, where
\* Python raises ValueError)
Index(s, c) ==
    IF c \in Range(s) THEN CHOOSE i \in 1..Len(s) : s[i] = c /\ \A j \in 1..(i - 1) : s[j] # c
    ELSE 0

\* s.split('/')[-1]: what follows the last "/" of s, all of s when it has none
LastSegment(s) ==
    LET slashes == {i \in 1..Len(s) : s[i] = "/"}
        from == IF slashes = {} THEN 1
                ELSE (CHOOSE i \in slashes : \A j \in slashes : j <= i) + 1
    IN  SubSeq(s, from, Len(s))

-----------------------------------------------------------------------------
(* The insertion-ordered dict self._collections *)

None == [kind |-> "None", data |-> 0]

Collection(data) == [kind |-> "Collection", data |-> data]

Keys(d) == [i \in 1..Len(d) |-> d[i].key]

HasKey(d, k) == \E i \in 1..Len(d) : d[i].key = k

GetItem(d, k) == d[CHOOSE i \in 1..Len(d) : d[i].key = k].val

\* mutant of SetItem: a key not yet present is entered as an unresolved
\* placeholder, whatever the value assigned
SetItemNewAsPlaceholder(d, k, v) ==
    IF HasKey(d, k)
    THEN [i \in 1..Len(d) |-> IF d[i].key = k THEN [key |-> k, val |-> v] ELSE d[i]]
    ELSE Append(d, [key |-> k, val |-> [kind |-> "None", data |-> 0]])

\* mutant of SetItem: a value that is already resolved is kept (the first write
\* wins)
SetItemKeepResolved(d, k, v) ==
    IF HasKey(d, k)
    THEN [i \in 1..Len(d) |->
            IF d[i].key = k /\ d[i].val.kind = "None" THEN [key |-> k, val |-> v]
            ELSE d[i]]
    ELSE Append(d, [key |-> k, val |-> v])

\* d[k] = v: a key already present keeps its position, a new key goes last
SetItem(d, k, v) ==
    IF HasKey(d, k)
    THEN [i \in 1..Len(d) |-> IF d[i].key = k THEN [key |-> k, val |-> v] ELSE d[i]]
    ELSE Append(d, [key |-> k, val |-> v])

-----------------------------------------------------------------------------
(* The constructor, STAC.__init__ *)

\* access_token=None is [given |-> FALSE]; access_token='...' carries the text
NoToken == [given |-> FALSE, value |-> <<>>]

Token(v) == [given |-> TRUE, value |-> v]

Tokens == {NoToken, Token(<<>>), Token(<<"t">>)}

UrlInputs == StringsUpTo({"h", "/"}, MaxUrlLen) \ {<<>>}

ConstructorArgs == [url : UrlInputs, validate : BOOLEAN, access_token : Tokens]

\* url if url[-1] != '/' else url[0:-1]
NormalizeUrl(u) == IF u[Len(u)] # "/" THEN u ELSE SubSeq(u, 1, Len(u) - 1)

\* f'?access_token={access_token}' if access_token else '': None and the
\* empty string are both falsy
TokenSuffix(t) ==
    IF t.given /\ t.value # <<>> THEN <<"?", "access_token=">> \o t.value ELSE <<>>

EmptyDict == [kind |-> "dict", links |-> <<>>]

NoResult == [kind |-> "none", ids |-> <<>>, data |-> 0, msg |-> <<>>]

NoFilter == [given |-> FALSE, collections |-> <<>>]

CollectionIds == {<<"a">>, <<"b">>}

Callers == {1, 2}

\* a caller that has not called collection()
Idle == [pc |-> "idle", id |-> <<>>, requested |-> FALSE, data |-> 0, valid |-> FALSE,
         result |-> NoResult]

\* the clients of Spec: one URL, with and without validation and token
CacheArgs == [url : {<<"h", "/">>}, validate : BOOLEAN, access_token : {NoToken, Token(<<"t">>)}]

Construct(arguments, counting) ==
    /\ args \in arguments
    /\ url = NormalizeUrl(args.url)
    /\ collections = <<>>
    /\ catalog = EmptyDict
    /\ validate = args.validate
    /\ access_token = TokenSuffix(args.access_token)
    /\ last = [op |-> "init", arg |-> <<>>, requests |-> <<>>, responses |-> <<>>,
               result |-> NoResult]
    /\ listed = [done |-> FALSE, ids |-> <<>>, fresh |-> FALSE]
    /\ returned = [id \in CollectionIds |-> None]
    /\ threads = [call |-> [t \in Callers |-> Idle], writes |-> <<>>, before |-> <<>>]
    /\ history = [counting |-> counting, fetches |-> [id \in CollectionIds |-> 0],
                  direct |-> FALSE]

Init == Construct(CacheArgs, FALSE)

InitArgs == Construct(ConstructorArgs, FALSE)

\* the clients of Spec, with the requests per identifier counted
InitFetch == Construct(CacheArgs, TRUE)

-----------------------------------------------------------------------------
(* The server, as Utils._get sees it, and the resource wrappers *)

Data == 1..NData

Link(rel, href) == [rel |-> rel, href |-> href]

\* the links a catalog document can carry: child links whose href is a path, a
\* path with a query after the final segment, and a path with a '?' only before
\* the last '/'; and a link that is no child
Links ==
    { Link("child", <<"h", "/", "a">>),
      Link("child", <<"h", "/", "b", "?", "q">>),
      Link("child", <<"h", "?", "q", "/", "a">>),
      Link("self", <<"h", "/", "b">>) }

RECURSIVE SeqsUpTo(_, _)
SeqsUpTo(S, n) ==
    IF n = 0 THEN {<<>>}
    ELSE LET shorter == SeqsUpTo(S, n - 1)
         IN  shorter \cup {Append(s, x) : s \in shorter, x \in S}

HTTPErrorResponse == [status |-> "HTTPError", valid |-> FALSE, links |-> <<>>, data |-> 0]

CatalogResponsesUpTo(n) ==
    {[status |-> "ok", valid |-> v, links |-> l, data |-> 0] :
        v \in BOOLEAN, l \in SeqsUpTo(Links, n)}
    \cup {HTTPErrorResponse}

CatalogResponses == CatalogResponsesUpTo(MaxLinks)

\* the catalog documents of SpecArgs: at most one link
ShortCatalogResponses == CatalogResponsesUpTo(1)

DataResponses ==
    {[status |-> "ok", valid |-> v, links |-> <<>>, data |-> d] : v \in BOOLEAN, d \in Data}
    \cup {HTTPErrorResponse}

\* a wrapper (Catalog, Collection, ItemCollection) raises when the validation
\* flag is set and the document does not conform
WrapperRaises(r, flag) == flag /\ ~r.valid

Catalog(r) == [kind |-> "Catalog", links |-> r.links]

Filters == {NoFilter, [given |-> TRUE, collections |-> <<<<"a">>>>]}

Request(u, params) == [url |-> u, params |-> params]

Call(op, arg, requests, responses, result) ==
    [op |-> op, arg |-> arg, requests |-> requests, responses |-> responses,
     result |-> result]

\* what the call saw of a response: its status, its document, and whether the
\* document conforms to its schema
Answer(r) == [status |-> r.status, data |-> r.data, valid |-> r.valid]

Raised(kind) == [kind |-> kind, ids |-> <<>>, data |-> 0, msg |-> <<>>]

-----------------------------------------------------------------------------
(* STAC.conformance *)

ConformanceUrl == url \o <<"/", "conformance">>

conformance ==
    \E r \in DataResponses :
        /\ r.valid
        /\ last' = Call("conformance", <<>>, <<Request(ConformanceUrl, NoFilter)>>,
                        <<Answer(r)>>,
                        IF r.status = "HTTPError" THEN Raised("HTTPError")
                        ELSE [kind |-> "json", ids |-> <<>>, data |-> r.data, msg |-> <<>>])
        /\ UNCHANGED <<threads, args, client, listed, returned, history>>

-----------------------------------------------------------------------------
(* STAC.catalog *)

\* mutant of CatalogIsCached: the cache counts as populated only while it holds
\* an unresolved placeholder
CatalogIsCachedByPlaceholder(d) == \E i \in 1..Len(d) : d[i].val.kind = "None"

\* mutant of CatalogIsCached: the cache counts as populated from two entries on
CatalogIsCachedFromTwo(d) == Len(d) > 1

\* len(self._collections) > 0
CatalogIsCached(d) == Len(d) > 0

CatalogUrl == url \o <<"/", "stac">> \o access_token

\* the key a child link is stored under; raised is the ValueError of
\* collection_name.index('?') when the final segment holds no '?'
ChildName(href) ==
    IF "?" \in Range(href)
    THEN LET collection_name == LastSegment(href)
         IN  IF "?" \in Range(collection_name)
             THEN [raised |-> FALSE,
                   name |-> SubSeq(collection_name, 1, Index(collection_name, "?") - 1)]
             ELSE [raised |-> TRUE, name |-> <<>>]
    ELSE [raised |-> FALSE, name |-> LastSegment(href)]

\* the loop over self._catalog.links: the dict it leaves, and whether it
\* ended in the ValueError
RECURSIVE AddChildren(_, _)
AddChildren(d, links) ==
    IF links = <<>> THEN [dict |-> d, raised |-> FALSE]
    ELSE LET i == Head(links)
         IN  IF i.rel = "child"
             THEN LET n == ChildName(i.href)
                  IN  IF n.raised THEN [dict |-> d, raised |-> TRUE]
                      ELSE AddChildren(SetItem(d, n.name, None), Tail(links))
             ELSE AddChildren(d, Tail(links))

IdList(d) == [kind |-> "list", ids |-> Keys(d), data |-> 0, msg |-> <<>>]

catalog_hit ==
    /\ CatalogIsCached(collections)
    /\ last' = Call("catalog", <<>>, <<>>, <<>>, IdList(collections))
    /\ listed' = [done |-> TRUE, ids |-> Keys(collections), fresh |-> TRUE]
    /\ UNCHANGED <<threads, args, client, returned, history>>

catalog_fetch(responses) ==
    /\ ~CatalogIsCached(collections)
    /\ \E r \in responses :
        LET req == <<Request(CatalogUrl, NoFilter)>>
            loop == AddChildren(collections, r.links)
        IN  IF r.status = "HTTPError"
            THEN /\ last' = Call("catalog", <<>>, req, <<Answer(r)>>, Raised("HTTPError"))
                 /\ UNCHANGED <<threads, args, client, listed, returned, history>>
            ELSE IF WrapperRaises(r, validate)
            THEN /\ last' = Call("catalog", <<>>, req, <<Answer(r)>>, Raised("ValidationError"))
                 /\ UNCHANGED <<threads, args, client, listed, returned, history>>
            ELSE /\ catalog' = Catalog(r)
                 /\ collections' = loop.dict
                 /\ last' = Call("catalog", <<>>, req, <<Answer(r)>>,
                                 IF loop.raised THEN Raised("ValueError")
                                 ELSE IdList(loop.dict))
                 /\ listed' = IF loop.raised THEN listed
                              ELSE [done |-> TRUE, ids |-> Keys(loop.dict), fresh |-> TRUE]
                 /\ UNCHANGED <<threads, args, url, validate, access_token, returned, history>>

-----------------------------------------------------------------------------
(* STAC.collection *)

\* mutant of CollectionIsCached: the early return of a cached Collection is missing
CollectionIsNeverCached(d, collection_id) == FALSE

\* mutant of CollectionIsCached: the test for the unresolved placeholder is left out
CollectionIsCachedByKey(d, collection_id) == HasKey(d, collection_id)

\* collection_id in self._collections.keys() and
\* self._collections[collection_id] is not None
CollectionIsCached(d, collection_id) ==
    HasKey(d, collection_id) /\ GetItem(d, collection_id) # None

CollectionUrl(collection_id) ==
    url \o <<"/", "collections", "/">> \o collection_id \o access_token

\* mutant of KeyErrorMessage: the message does not name the identifier
KeyErrorMessageWithoutId(collection_id) ==
    <<"Could not retrieve information for collection">>

KeyErrorMessage(collection_id) ==
    <<"Could not retrieve information for collection: ">> \o collection_id

\* the requests issued for each identifier, counted as none, one, or more than one
Counted(fetches, collection_id) ==
    [fetches EXCEPT ![collection_id] = IF @ < 2 THEN @ + 1 ELSE @]

\* mutant of ExceptHTTPError: every exception of the try block is translated
ExceptException(exception, collection_id) ==
    [kind |-> "KeyError", ids |-> <<>>, data |-> 0, msg |-> KeyErrorMessage(collection_id)]

\* except HTTPError as e: raise KeyError(...): what the caller gets when the
\* try block raises exception
ExceptHTTPError(exception, collection_id) ==
    IF exception = "HTTPError"
    THEN [kind |-> "KeyError", ids |-> <<>>, data |-> 0,
          msg |-> KeyErrorMessage(collection_id)]
    ELSE Raised(exception)

collection_hit(collection_id) ==
    /\ CollectionIsCached(collections, collection_id)
    /\ last' = Call("collection", collection_id, <<>>, <<>>,
                    [kind |-> "Collection", ids |-> <<>>,
                     data |-> GetItem(collections, collection_id).data, msg |-> <<>>])
    /\ returned' = [returned EXCEPT ![collection_id] = GetItem(collections, collection_id)]
    /\ UNCHANGED <<threads, args, client, listed, history>>

collection_fetch(collection_id) ==
    /\ ~CollectionIsCached(collections, collection_id)
    /\ \E r \in DataResponses :
        LET req == <<Request(CollectionUrl(collection_id), NoFilter)>>
            requested == IF history.counting
                         THEN [history EXCEPT !.fetches = Counted(@, collection_id)]
                         ELSE history
        IN  IF r.status = "HTTPError"
            THEN /\ last' = Call("collection", collection_id, req, <<Answer(r)>>,
                                 ExceptHTTPError("HTTPError", collection_id))
                 /\ history' = requested
                 /\ UNCHANGED <<threads, args, client, listed, returned>>
            ELSE IF WrapperRaises(r, validate)
            THEN /\ last' = Call("collection", collection_id, req, <<Answer(r)>>,
                                 ExceptHTTPError("ValidationError", collection_id))
                 /\ history' = requested
                 /\ UNCHANGED <<threads, args, client, listed, returned>>
            ELSE /\ collections' = SetItem(collections, collection_id, Collection(r.data))
                 /\ last' = Call("collection", collection_id, req, <<Answer(r)>>,
                                 [kind |-> "Collection", ids |-> <<>>,
                                  data |-> GetItem(collections', collection_id).data,
                                  msg |-> <<>>])
                 /\ returned' = [returned EXCEPT
                                   ![collection_id] = GetItem(collections', collection_id)]
                 /\ listed' = IF HasKey(collections, collection_id) THEN listed
                              ELSE [listed EXCEPT !.fresh = FALSE]
                 /\ history' = [requested EXCEPT !.direct = @ \/ collections = <<>>]
                 /\ UNCHANGED <<threads, args, url, catalog, validate, access_token>>

collection(collection_id) ==
    \/ collection_hit(collection_id)
    \/ collection_fetch(collection_id)

-----------------------------------------------------------------------------
(* STAC.collection run by several callers without synchronization: one step
   per statement.  The interpreter runs each statement's dict operations one
   at a time, so a step is atomic. *)

AllIdle == \A t \in Callers : threads.call[t].pc = "idle"

Step(t, call) == [threads EXCEPT !.call[t] = call]

\* caller t enters collection(collection_id); the first caller to enter marks
\* the cache as it stands
call_begin(t, collection_id) ==
    /\ threads.call[t].pc = "idle"
    /\ threads' = [threads EXCEPT
                     !.call[t] = [Idle EXCEPT !.pc = "check", !.id = collection_id],
                     !.before = IF AllIdle THEN collections ELSE @]
    /\ UNCHANGED <<args, client, last, listed, returned, history>>

\* the test of the cache and the early return
call_check(t) ==
    LET c == threads.call[t]
    IN  /\ c.pc = "check"
        /\ threads' =
             IF CollectionIsCached(collections, c.id)
             THEN Step(t, [c EXCEPT !.pc = "done",
                                    !.result = [kind |-> "Collection", ids |-> <<>>,
                                                data |-> GetItem(collections, c.id).data,
                                                msg |-> <<>>]])
             ELSE Step(t, [c EXCEPT !.pc = "get"])
        /\ UNCHANGED <<args, client, last, listed, returned, history>>

\* data = Utils._get(...)
call_get(t) ==
    LET c == threads.call[t]
    IN  /\ c.pc = "get"
        /\ \E r \in DataResponses :
             threads' =
               IF r.status = "HTTPError"
               THEN Step(t, [c EXCEPT !.pc = "done", !.requested = TRUE,
                                      !.result = ExceptHTTPError("HTTPError", c.id)])
               ELSE Step(t, [c EXCEPT !.pc = "store", !.requested = TRUE,
                                      !.data = r.data, !.valid = r.valid])
        /\ UNCHANGED <<args, client, last, listed, returned, history>>

\* self._collections[collection_id] = Collection(data, self._validate)
call_store(t) ==
    LET c == threads.call[t]
    IN  /\ c.pc = "store"
        /\ IF validate /\ ~c.valid
           THEN /\ threads' = Step(t, [c EXCEPT !.pc = "done",
                                   !.result = ExceptHTTPError("ValidationError", c.id)])
                /\ UNCHANGED collections
           ELSE /\ collections' = SetItem(collections, c.id, Collection(c.data))
                /\ threads' = [threads EXCEPT !.call[t] = [c EXCEPT !.pc = "return"],
                                              !.writes = Append(@, t)]
        /\ UNCHANGED <<args, url, catalog, validate, access_token, last, listed, returned,
                       history>>

\* return self._collections[collection_id]
call_return(t) ==
    LET c == threads.call[t]
    IN  /\ c.pc = "return"
        /\ threads' = Step(t, [c EXCEPT !.pc = "done",
                                        !.result = [kind |-> "Collection", ids |-> <<>>,
                                                    data |-> GetItem(collections, c.id).data,
                                                    msg |-> <<>>]])
        /\ UNCHANGED <<args, client, last, listed, returned, history>>

-----------------------------------------------------------------------------
(* STAC.search *)

SearchUrl == url \o <<"/", "stac", "/", "search">> \o access_token

\* mutant of SearchRequest: the filter is not passed on as parameters
SearchRequestWithoutFilter(filter) == Request(SearchUrl, NoFilter)

\* Utils._get(url, params=filter)
SearchRequest(filter) == Request(SearchUrl, filter)

search(filter) ==
    \E r \in DataResponses :
        /\ last' = Call("search", filter.collections, <<SearchRequest(filter)>>,
                        <<Answer(r)>>,
                        IF r.status = "HTTPError" THEN Raised("HTTPError")
                        ELSE IF WrapperRaises(r, validate) THEN Raised("ValidationError")
                        ELSE [kind |-> "ItemCollection", ids |-> <<>>, data |-> r.data,
                              msg |-> <<>>])
        /\ UNCHANGED <<threads, args, client, listed, returned, history>>

-----------------------------------------------------------------------------
(* STAC.url *)

url_property ==
    /\ last' = Call("url", <<>>, <<>>, <<>>,
                    [kind |-> "str", ids |-> <<>>, data |-> 0, msg |-> url])
    /\ UNCHANGED <<threads, args, client, listed, returned, history>>

-----------------------------------------------------------------------------

NextWith(responses) ==
    \/ conformance
    \/ catalog_hit
    \/ catalog_fetch(responses)
    \/ \E collection_id \in CollectionIds : collection(collection_id)
    \/ \E filter \in Filters : search(filter)
    \/ url_property

Next == NextWith(CatalogResponses)

Spec == Init /\ [][Next]_vars

\* every constructor argument, against a server with short catalog documents
NextArgs == NextWith(ShortCatalogResponses)

SpecArgs == InitArgs /\ [][NextArgs]_vars

\* one caller fills the cache, then the callers run collection() side by side
NextRace ==
    \/ AllIdle /\ catalog_fetch(ShortCatalogResponses)
    \/ AllIdle /\ \E collection_id \in CollectionIds : collection(collection_id)
    \/ \E t \in Callers, collection_id \in CollectionIds : call_begin(t, collection_id)
    \/ \E t \in Callers : call_check(t)
    \/ \E t \in Callers : call_get(t)
    \/ \E t \in Callers : call_store(t)
    \/ \E t \in Callers : call_return(t)

SpecRace == Init /\ [][NextRace]_vars

\* the clients of Spec with the requests per identifier counted, against a
\* server with short catalog documents
SpecFetch == InitFetch /\ [][NextArgs]_vars

-----------------------------------------------------------------------------
(* Properties *)

Resolved(d) == {i \in 1..Len(d) : d[i].val # None}

Placeholder(d, k) == HasKey(d, k) /\ GetItem(d, k) = None

TokenText == <<"?", "access_token=">>

\* C1: once a catalog call has returned an identifier list, every later
\* catalog call issues no request and returns a list, the same list as the
\* previous catalog call when no collection call added an identifier since
C1_CatalogIsFetchedOnce ==
    [][(listed.done /\ last'.op = "catalog")
        => /\ last'.requests = <<>>
           /\ last'.result.kind = "list"
           /\ listed.fresh => last'.result.ids = listed.ids]_vars

\* C2: collection(x) on an unresolved placeholder x issues exactly one request,
\* to <url>/collections/x, and on success stores the Collection of the answer
\* under x; once collection(x) has returned a Collection, every later
\* collection(x) issues no request and returns that Collection
C2_CollectionIsFetchedOnce ==
    [][\A x \in CollectionIds :
        (last'.op = "collection" /\ last'.arg = x)
        => /\ Placeholder(collections, x)
              => /\ Len(last'.requests) = 1
                 /\ last'.requests[1].url
                      = url \o <<"/", "collections", "/">> \o x \o access_token
                 /\ last'.result.kind = "Collection"
                      => /\ HasKey(collections', x)
                         /\ GetItem(collections', x) = Collection(last'.responses[1].data)
                         /\ last'.result.data = last'.responses[1].data
           /\ returned[x] # None
              => /\ last'.requests = <<>>
                 /\ last'.result.kind = "Collection"
                 /\ last'.result.data = returned[x].data
                 /\ GetItem(collections', x) = returned[x]]_vars

\* a collection call answered from the cache, for an identifier the catalog listed
C2_Witness ==
    /\ last.op = "collection"
    /\ last.requests = <<>>
    /\ last.result.kind = "Collection"
    /\ catalog.kind = "Catalog"
    /\ \E l \in Range(catalog.links) :
          l.rel = "child" /\ ~ChildName(l.href).raised /\ ChildName(l.href).name = last.arg

\* C3: when the server answers collection(id) with an HTTP error, the call
\* fails with a KeyError whose message contains id, and the cache and the
\* cached catalog are as they were before the call
C3_HttpErrorIsKeyError ==
    [][(last'.op = "collection" /\ Len(last'.responses) = 1
            /\ last'.responses[1].status = "HTTPError")
        => /\ last'.result.kind = "KeyError"
           /\ Contains(last'.result.msg, last'.arg)
           /\ collections' = collections
           /\ catalog' = catalog]_vars

\* a KeyError for an identifier that is an unresolved placeholder, beside a
\* resolved entry
C3_Witness ==
    /\ last.op = "collection"
    /\ last.result.kind = "KeyError"
    /\ Placeholder(collections, last.arg)
    /\ Resolved(collections) # {}

\* C4: every search call issues exactly one request, to <url>/stac/search with
\* the filter as parameters, leaves the cache and the cached catalog unchanged,
\* and its result is the answer's document, whatever the cache holds
C4_SearchIsNeverCached ==
    [][last'.op = "search"
        => /\ Len(last'.requests) = 1
           /\ last'.requests[1].url = url \o <<"/", "stac", "/", "search">> \o access_token
           /\ last'.requests[1].params.collections = last'.arg
           /\ collections' = collections
           /\ catalog' = catalog
           /\ last'.result.kind = "ItemCollection"
                => last'.result.data = last'.responses[1].data
           /\ last'.result.kind \in
                IF last'.responses[1].status = "HTTPError" THEN {"HTTPError"}
                ELSE IF validate THEN {"ItemCollection", "ValidationError"}
                ELSE {"ItemCollection"}]_vars

\* a search that returned items while the cache holds a resolved collection
C4_Witness ==
    /\ last.op = "search"
    /\ last.result.kind = "ItemCollection"
    /\ Len(last.requests) = 1
    /\ Resolved(collections) # {}

\* C5: with an access token every request URL of every operation ends with
\* ?access_token=<token>; without one no request URL contains that suffix
C5_EveryRequestCarriesToken ==
    \A i \in 1..Len(last.requests) :
        IF args.access_token.given
        THEN EndsWith(last.requests[i].url, TokenText \o args.access_token.value)
        ELSE ~Contains(last.requests[i].url, TokenText)

\* the final '/'-separated segment of href, cut at its first '?' when it has one
SegmentId(href) ==
    LET segment == LastSegment(href)
    IN  IF "?" \in Range(segment) THEN SubSeq(segment, 1, Index(segment, "?") - 1)
        ELSE segment

ChildLinks(links) == SelectSeq(links, LAMBDA l : l.rel = "child")

\* C6: after a catalog call that fetched a catalog, the cache holds, for every
\* child link, the final segment of its href cut at the first '?', and no
\* identifier of the cache contains a '?'
C6_ChildIdentifierIsFinalSegment ==
    (last.op = "catalog" /\ Len(last.requests) = 1 /\ catalog.kind = "Catalog"
        /\ last.result.kind \notin {"HTTPError", "ValidationError"})
    => /\ \A l \in Range(ChildLinks(catalog.links)) : HasKey(collections, SegmentId(l.href))
       /\ \A k \in Range(Keys(collections)) : "?" \notin Range(k)

\* s without the elements that occurred earlier in it
RECURSIVE FirstOccurrences(_)
FirstOccurrences(s) ==
    IF s = <<>> THEN <<>>
    ELSE LET rest == FirstOccurrences(SubSeq(s, 1, Len(s) - 1))
             x == s[Len(s)]
         IN  IF x \in Range(rest) THEN rest ELSE Append(rest, x)

ChildIds(links) ==
    LET children == ChildLinks(links)
    IN  [i \in 1..Len(children) |-> SegmentId(children[i].href)]

\* C7: a catalog call on a client that holds a fetched catalog returns an
\* identifier list in which the identifiers of the child links occur once
\* each, in the order of their first occurrence among the links; the call that
\* fetched the catalog returns exactly these
C7_ListIsChildrenInOrder ==
    (last.op = "catalog" /\ catalog.kind = "Catalog"
        /\ last.result.kind \notin {"HTTPError", "ValidationError"})
    => LET expected == FirstOccurrences(ChildIds(catalog.links))
       IN  /\ last.result.kind = "list"
           /\ SelectSeq(last.result.ids, LAMBDA k : k \in Range(expected)) = expected
           /\ Len(last.requests) = 1 => last.result.ids = expected

\* C8: a URL ending with '/' is stored without that separator and the stored
\* URL does not end with '/'; any other URL is stored as given; the url
\* property returns the stored URL, which no operation changes
C8_UrlIsNormalized ==
    /\ IF args.url[Len(args.url)] = "/"
       THEN /\ url = SubSeq(args.url, 1, Len(args.url) - 1)
            /\ ~EndsWith(url, <<"/">>)
       ELSE url = args.url
    /\ last.op = "url" => last.result.msg = url

\* C9: an identifier that maps to a resolved Collection keeps that Collection
\* through every operation
C9_ResolvedIsKept ==
    [][\A i \in Resolved(collections) :
         /\ HasKey(collections', collections[i].key)
         /\ GetItem(collections', collections[i].key) = collections[i].val]_vars

\* a catalog call made while the cache holds a resolved Collection beside an
\* unresolved placeholder
C9_Witness ==
    /\ last.op = "catalog"
    /\ Resolved(collections) # {}
    /\ \E i \in 1..Len(collections) : collections[i].val = None

\* C10: collection(id) for an identifier absent from the cache issues one
\* request, and on an ok answer that the wrapper accepts it appends id, mapped
\* to the Collection of the answer, to the cache, returns that Collection and
\* changes no other entry nor the cached catalog
C10_AbsentIdentifierIsInserted ==
    [][\A x \in CollectionIds :
        (last'.op = "collection" /\ last'.arg = x /\ ~HasKey(collections, x))
        => /\ Len(last'.requests) = 1
           /\ catalog' = catalog
           /\ last'.responses[1].status = "ok"
              => \/ /\ last'.result.kind = "Collection"
                    /\ last'.result.data = last'.responses[1].data
                    /\ collections'
                         = Append(collections,
                                  [key |-> x, val |-> Collection(last'.responses[1].data)])
                 \/ /\ validate
                    /\ last'.result.kind = "ValidationError"
                    /\ collections' = collections]_vars

\* collection() has resolved an identifier on a client that never fetched a catalog
C10_Witness ==
    /\ last.op = "collection"
    /\ last.result.kind = "Collection"
    /\ Len(last.requests) = 1
    /\ catalog = EmptyDict
    /\ Len(collections) = 1

-----------------------------------------------------------------------------
(* Properties of the later claims *)

\* C11 as stated: a collection call issues a request for an identifier only
\* when no request was issued for it before, and a catalog call issues no
\* request once a catalog listing has put an identifier into the cache
C11_FetchedAtMostOnce ==
    [][/\ \A x \in CollectionIds :
            (last'.op = "collection" /\ last'.arg = x /\ last'.requests # <<>>)
            => history.fetches[x] = 0
       /\ (last'.op = "catalog" /\ catalog.kind = "Catalog" /\ Len(collections) > 0)
            => last'.requests = <<>>]_vars

\* C11 as amended: a collection call issues a request for an identifier only
\* when no collection call has returned a Collection for it before, so a fetch
\* that ended in an error may be repeated; and a catalog call issues no request
\* once a catalog listing has put an identifier into the cache
C11_FetchedOnceSuccessfully ==
    [][/\ \A x \in CollectionIds :
            (last'.op = "collection" /\ last'.arg = x /\ last'.requests # <<>>)
            => /\ returned[x] = None
               /\ ~(HasKey(collections, x) /\ GetItem(collections, x) # None)
       /\ (last'.op = "catalog" /\ catalog.kind = "Catalog" /\ Len(collections) > 0)
            => last'.requests = <<>>]_vars

\* an identifier the catalog listed was requested more than once and is now
\* resolved, and a catalog call was then answered from the cache
C11_Witness ==
    /\ last.op = "catalog"
    /\ last.requests = <<>>
    /\ catalog.kind = "Catalog"
    /\ \E x \in CollectionIds :
          /\ history.fetches[x] = 2
          /\ returned[x] # None
          /\ \E l \in Range(catalog.links) :
                l.rel = "child" /\ ~ChildName(l.href).raised /\ ChildName(l.href).name = x

BothFetched(x) ==
    \A t \in Callers :
        /\ threads.call[t].pc = "done"
        /\ threads.call[t].id = x
        /\ threads.call[t].requested
        /\ threads.call[t].result.kind = "Collection"

\* C13: when two callers have run collection(x) side by side and both have
\* fetched it, the cache is the cache the first of them found with x mapped to
\* the Collection written last: x is resolved and no other entry has changed
C13_LastWriterWins ==
    \A x \in CollectionIds :
        BothFetched(x)
        => /\ Len(threads.writes) = 2
           /\ collections
                = SetItem(threads.before, x,
                          Collection(threads.call[threads.writes[2]].data))
           /\ GetItem(collections, x) # None

\* both callers fetched an identifier the catalog listed as an unresolved
\* placeholder, with different answers, while the cache holds another entry
C13_Witness ==
    \E x \in CollectionIds :
        /\ BothFetched(x)
        /\ threads.call[1].data # threads.call[2].data
        /\ HasKey(threads.before, x)
        /\ GetItem(threads.before, x) = None
        /\ Len(collections) = 2

\* C14: a catalog call that ends in an error (HTTP error, validation error,
\* or the error of deriving an identifier from a link) leaves the cache and the
\* cached catalog as they were, with the cache still empty, so that the next
\* catalog call fetches again
C14_FailedCatalogChangesNothing ==
    [][(last'.op = "catalog"
            /\ last'.result.kind \in {"HTTPError", "ValidationError", "ValueError"})
        => /\ collections' = collections
           /\ catalog' = catalog
           /\ Len(collections') = 0]_vars

====
